---------------------------- MODULE Spec2Model ----------------------------
(***************************************************************************)
(* TtToCea608 (video/closedcaption/src/tttocea608.rs): the element that    *)
(* turns timed-text cues into CEA-608 byte pairs stamped on video frames.  *)
(*                                                                         *)
(* Four specifications share the module:                                   *)
(*   Spec     the element: its scheduling State and one action per handler *)
(*            (sink_chain, sink_event for caps / gap / eos, change_state); *)
(*   EncSpec  the per-character loop of sink_chain run one character at a  *)
(*            time over a bounded set of texts;                            *)
(*   CellSpec the handlers run statement by statement around the borrows   *)
(*            of the AtomicRefCell that holds the State and the calls that *)
(*            leave the element, with a query coming back in during a call;*)
(*   ThreadSpec  the same handlers on the streaming thread, with latency   *)
(*            queries on a thread of their own.                            *)
(* sink_chain in Spec encodes its text with EncodeText, which folds the    *)
(* same EncodeChar that EncSpec steps through.                             *)
(*                                                                         *)
(* Time is counted in clock ticks, SECOND ticks to the second.  The code's *)
(* tick is the nanosecond (gst::SECOND = 10^9 ns, in u64); the model's     *)
(* tick is coarser so that frame_no * SECOND * fps stays inside TLC's      *)
(* 32-bit integers.  No u64 operation of the code gets near its width for  *)
(* the inputs modelled here.                                               *)
(***************************************************************************)
EXTENDS Integers, Sequences, FiniteSets, TLC

VARIABLES
    framerate,                \* State.framerate, <<numer, denom>>
    erase_display_frame_no,   \* State.erase_display_frame_no, None or a frame number
    last_frame_no,            \* State.last_frame_no
    current_state,            \* the element's GstState, as change_state has left it
    ev,                       \* the last handler that ran: its inputs, result and the State it found
    out,                      \* what that handler handed to the srcpad, in order
    hist,                     \* what the session has seen so far (see SessionStart)
    data,                     \* EncSpec: the cue's text
    idx,                      \* EncSpec: position of the next character of data
    enc,                      \* EncSpec: row, col, prev_char, buffers of the loop
    encpc,                    \* EncSpec: "idle", "decode", "loop", "done", "error"
    todo,                     \* CellSpec: the steps the running handler has still to take
    borrow,                   \* CellSpec: the AtomicRefCell: "free", "mut" or "shared"
    panicked,                 \* CellSpec: a borrow found the cell taken and panicked
    qtodo                     \* ThreadSpec: the steps the query on the other thread has still to take

stateVars == <<framerate, erase_display_frame_no, last_frame_no>>
elemVars  == <<framerate, erase_display_frame_no, last_frame_no, current_state, ev, out, hist>>
encVars   == <<data, idx, enc, encpc>>
cellVars  == <<todo, borrow, panicked, qtodo>>
vars      == <<framerate, erase_display_frame_no, last_frame_no, current_state, ev, out, hist,
               data, idx, enc, encpc, todo, borrow, panicked, qtodo>>

---------------------------------------------------------------------------
(* Bounds of the model *)

\* clock ticks per second (the tick of the code is 1 ns)
SECOND == 1000

\* EncSpec enumerates every text of at most this many characters
MaxTextLen == 3

---------------------------------------------------------------------------
(* Option and ClockTime *)

None == -1

CLOCK_TIME_NONE == -1

\* Option<u64>'s derived ordering: None is below every Some
OptionLt(a, b) ==
    IF a = None THEN b # None
    ELSE IF b = None THEN FALSE
    ELSE a < b

---------------------------------------------------------------------------
(* Integer helpers *)

RECURSIVE BitAnd(_, _)
BitAnd(a, b) ==
    IF a = 0 \/ b = 0 THEN 0
    ELSE (a % 2) * (b % 2) + 2 * BitAnd(a \div 2, b \div 2)

\* gst_util_uint64_scale_round: val * num / denom, rounded to nearest, half up
scale_round(val, num, denom) ==
    (val * num + (denom \div 2)) \div denom

\* the timestamp of a frame number, as decrement_pts and push_list compute it
frames_to_time(frame_no, fps_n, fps_d) ==
    scale_round(frame_no * SECOND, fps_d, fps_n)

\* the frame number of a timestamp, as sink_chain and sink_event compute it
time_to_frames(t, fps_n, fps_d) ==
    scale_round(t, fps_n, fps_d) \div SECOND

\* decrement_pts giving every buffer one frame's duration, moved or not
decrement_pts_whole_frame(min_frame_no, frame_no, fps_n, fps_d) ==
    LET new_frame_no == IF frame_no > min_frame_no THEN frame_no - 1 ELSE frame_no
        new_pts == frames_to_time(new_frame_no, fps_n, fps_d)
    IN  [frame_no |-> new_frame_no,
         pts      |-> new_pts,
         duration |-> frames_to_time(new_frame_no + 1, fps_n, fps_d) - new_pts,
         stepped  |-> frame_no > min_frame_no]

\* one step of the backward walk: the new *frame_no and the (pts, duration) returned
decrement_pts(min_frame_no, frame_no, fps_n, fps_d) ==
    LET old_pts == frames_to_time(frame_no, fps_n, fps_d)
        new_frame_no == IF frame_no > min_frame_no THEN frame_no - 1 ELSE frame_no
        new_pts == frames_to_time(new_frame_no, fps_n, fps_d)
    IN  [frame_no |-> new_frame_no,
         pts      |-> new_pts,
         duration |-> old_pts - new_pts,
         stepped  |-> frame_no > min_frame_no]     \* kept for the record: whether *frame_no moved

---------------------------------------------------------------------------
(* The code table (libcaption, reached through cea608tott_ffi) *)

\* the characters of the model's texts; "LF" is '\n', "CR" is '\r', "XX" is a
\* byte that is not valid UTF-8
Letters == {"a", "b"}
Chars == {"a", "b", " ", "A'", "(R)", "EUR", "LF", "CR"}

\* eia608_from_utf8_1(c, 0): 0 when the character has no CEA-608 code
eia608_from_utf8_1(c) ==
    CASE c = "a"   -> 24960     \* 0x6180
      [] c = "b"   -> 25216     \* 0x6280
      [] c = " "   -> 8320      \* 0x2080
      [] c = "A'"  -> 37408     \* 0x9220, A acute, a West-European character
      [] c = "(R)" -> 37296     \* 0x91B0, registered mark, a special North-American character
      [] OTHER     -> 0         \* no mapping

\* lazy_static SPACE
SPACE == eia608_from_utf8_1(" ")

\* eia608_control_command(cmd, 0), with its parity bits
eia608_control_command(cmd) ==
    CASE cmd = "resume_caption_loading"     -> 37920     \* 0x9420
      [] cmd = "erase_display_memory"       -> 37932     \* 0x942C
      [] cmd = "erase_non_displayed_memory" -> 38062     \* 0x94AE
      [] cmd = "end_of_caption"             -> 37935     \* 0x942F

\* eia608_row_column_pramble(row, col, 0, 0) for the rows sink_chain uses
eia608_row_column_preamble(row, col) ==
    CASE row = 13 /\ col = 0 -> 38096     \* 0x94D0
      [] row = 14 /\ col = 0 -> 38000     \* 0x9470

\* eia608_from_basicna: the first bytes of both codes in one byte pair
eia608_from_basicna(bna1, bna2) ==
    BitAnd(bna1, 65280) + (bna2 \div 256)

is_basicna(cc_data) == BitAnd(24576, cc_data) # 0          \* 0x6000

is_westeu(cc_data) == BitAnd(30304, cc_data) = 4640        \* 0x7660, 0x1220

is_specialna(cc_data) == BitAnd(30576, cc_data) = 4400     \* 0x7770, 0x1130

---------------------------------------------------------------------------
(* The buffer builders.  A buffer not yet scheduled is its cc_data. *)

\* control_command_buffer without the doubling
control_command_buffer_single(buffers, cmd) ==
    Append(buffers, eia608_control_command(cmd))

control_command_buffer(buffers, cmd) ==
    Append(Append(buffers, eia608_control_command(cmd)), eia608_control_command(cmd))

resume_caption_loading(buffers) == control_command_buffer(buffers, "resume_caption_loading")

erase_non_displayed_memory(buffers) == control_command_buffer(buffers, "erase_non_displayed_memory")

end_of_caption(buffers) == control_command_buffer(buffers, "end_of_caption")

preamble_buffer(buffers, row, col) ==
    Append(Append(buffers, eia608_row_column_preamble(row, col)),
           eia608_row_column_preamble(row, col))

bna_buffer(buffers, bna1, bna2) == Append(buffers, eia608_from_basicna(bna1, bna2))

\* A scheduled buffer: cc_data with the pts and duration of one decrement_pts step d.
\* frame_no and stepped are not in the gst::Buffer: they record the step that stamped it.
Stamped(cc_data, d) ==
    [cc |-> cc_data, pts |-> d.pts, duration |-> d.duration,
     frame_no |-> d.frame_no, stepped |-> d.stepped]

\* erase_display_memory adding at the end of the list instead of inserting at index 0
erase_display_memory_at_end(bufferlist, d) ==
    bufferlist \o <<Stamped(eia608_control_command("erase_display_memory"), d)>>

\* erase_display_memory: an erase-display buffer stamped by step d, inserted at index 0
erase_display_memory(bufferlist, d) ==
    <<Stamped(eia608_control_command("erase_display_memory"), d)>> \o bufferlist

---------------------------------------------------------------------------
(* sink_chain's encoding of a cue's text (lines 297-391) *)

\* std::str::from_utf8 accepts the whole text or none of it
Utf8Valid(text) == \A i \in 1..Len(text) : text[i] # "XX"

\* the loop's variables after resume_caption_loading, erase_non_displayed_memory
\* and the first preamble; stopped is the break at row > 14, drop_warnings counts
\* the "Dropping character after 32nd column" warnings; before is not a variable of
\* the code: EncLoop notes in it what the last turn of the loop started from
EncodeStart ==
    [row |-> 13, col |-> 0, prev_char |-> 0, stopped |-> FALSE, drop_warnings |-> 0,
     buffers |-> preamble_buffer(erase_non_displayed_memory(resume_caption_loading(<<>>)), 13, 0),
     before |-> [prev_char |-> 0, col |-> 0, buffers |-> 0]]

\* the '\n' arm of the loop body
EncodeNewline(st) ==
    LET flushed == IF st.prev_char # 0 THEN Append(st.buffers, st.prev_char) ELSE st.buffers
        row == st.row + 1
    IN  IF row > 14
        THEN [st EXCEPT !.buffers = flushed, !.prev_char = 0, !.row = row, !.stopped = TRUE]
        ELSE [st EXCEPT !.buffers = preamble_buffer(flushed, row, 0), !.prev_char = 0,
                        !.row = row, !.col = 0]

\* PairChar without the filler: a West-European code after a held character is
\* handled like any other code that does not pair
PairChar_no_filler(buffers, prev_char, cc_data) ==
    IF is_basicna(prev_char)
    THEN [prev_char |-> 0,
          buffers |-> IF is_basicna(cc_data)
                      THEN bna_buffer(buffers, prev_char, cc_data)
                      ELSE Append(Append(buffers, prev_char), cc_data)]
    ELSE IF is_westeu(cc_data)
    THEN [prev_char |-> prev_char, buffers |-> Append(Append(buffers, SPACE), cc_data)]
    ELSE IF is_basicna(cc_data)
    THEN [prev_char |-> cc_data, buffers |-> buffers]
    ELSE [prev_char |-> prev_char, buffers |-> Append(buffers, cc_data)]

\* lines 345-367: what a character's code adds to buffers and leaves in prev_char
PairChar(buffers, prev_char, cc_data) ==
    IF is_basicna(prev_char)
    THEN [prev_char |-> 0,
          buffers |-> IF is_basicna(cc_data)
                      THEN bna_buffer(buffers, prev_char, cc_data)
                      ELSE IF is_westeu(cc_data)
                      THEN Append(bna_buffer(buffers, prev_char, SPACE), cc_data)
                      ELSE Append(Append(buffers, prev_char), cc_data)]
    ELSE IF is_westeu(cc_data)
    THEN [prev_char |-> prev_char, buffers |-> Append(Append(buffers, SPACE), cc_data)]
    ELSE IF is_basicna(cc_data)
    THEN [prev_char |-> cc_data, buffers |-> buffers]
    ELSE [prev_char |-> prev_char, buffers |-> Append(buffers, cc_data)]

\* one turn of the loop body for character c (not run once the loop has broken)
EncodeChar(st, c) ==
    IF c = "LF" THEN EncodeNewline(st)
    ELSE IF c = "CR" THEN st
    ELSE
        LET looked == eia608_from_utf8_1(c)
            cc_data == IF looked = 0 THEN SPACE ELSE looked
            paired == PairChar(st.buffers, st.prev_char, cc_data)
            buffers == IF is_specialna(cc_data)
                       THEN resume_caption_loading(paired.buffers)
                       ELSE paired.buffers
            col == st.col + 1
        IN  [st EXCEPT !.buffers = buffers, !.prev_char = paired.prev_char, !.col = col,
                       !.drop_warnings = IF col > 32 THEN @ + 1 ELSE @]

\* lines 386-390: the flush of a held character and the doubled end_of_caption
EncodeFinish(st) ==
    end_of_caption(IF st.prev_char # 0 THEN Append(st.buffers, st.prev_char) ELSE st.buffers)

RECURSIVE EncodeFrom(_, _, _)
EncodeFrom(st, text, i) ==
    IF i > Len(text) \/ st.stopped THEN st
    ELSE EncodeFrom(EncodeChar(st, text[i]), text, i + 1)

\* the whole of lines 297-391 for a valid text: the cue's buffers in emission order
EncodeText(text) == EncodeFinish(EncodeFrom(EncodeStart, text, 1))

---------------------------------------------------------------------------
(* Scheduling and delivery *)

\* gst::FlowReturn of a srcpad.push_list, as downstream decides it
FlowReturns == {"Ok", "Flushing"}

\* ClockTime subtraction is checked: below zero it is CLOCK_TIME_NONE
ClockTimeSub(a, b) == IF a >= b THEN a - b ELSE CLOCK_TIME_NONE

\* ClockTime addition: CLOCK_TIME_NONE plus anything is CLOCK_TIME_NONE
ClockTimeAdd(a, b) == IF a = CLOCK_TIME_NONE \/ b = CLOCK_TIME_NONE THEN CLOCK_TIME_NONE ELSE a + b

\* push_list: the gap event (when the two frame numbers differ) and the list, in
\* the order they reach the srcpad; flow is what srcpad.push_list returns
push_list(bufferlist, from_frame_no, new_frame_no, fps_n, fps_d, flow) ==
    LET start == frames_to_time(from_frame_no, fps_n, fps_d)
        end   == frames_to_time(new_frame_no, fps_n, fps_d)
    IN  (IF from_frame_no # new_frame_no
         THEN <<[kind |-> "gap", start |-> start, duration |-> ClockTimeSub(end, start)]>>
         ELSE <<>>)
        \o <<[kind |-> "list", buffers |-> bufferlist, flow |-> flow]>>

\* do_erase_display: the value it leaves in state.last_frame_no and what it pushes
do_erase_display(min_frame_no, erase_frame_no, fps_n, fps_d, flow) ==
    LET d1 == decrement_pts(min_frame_no, erase_frame_no, fps_n, fps_d)
        d2 == decrement_pts(min_frame_no, d1.frame_no, fps_n, fps_d)
        bufferlist == erase_display_memory(erase_display_memory(<<>>, d1), d2)
    IN  [last_frame_no |-> erase_frame_no,
         pushed |-> push_list(bufferlist, min_frame_no, d2.frame_no, fps_n, fps_d, flow),
         flow |-> flow]

\* ScheduleFrom putting each buffer it stamps at the end of the list
RECURSIVE ScheduleFrom_appending(_, _, _, _, _, _, _, _)
ScheduleFrom_appending(buffers, k, frame_no, erase_frame_no, min_frame_no, fps_n, fps_d, bufferlist) ==
    IF k = 0
    THEN [frame_no |-> frame_no, erase_display_frame_no |-> erase_frame_no,
          bufferlist |-> bufferlist]
    ELSE
        LET splice == erase_frame_no # None /\ erase_frame_no = frame_no
            e1 == decrement_pts(min_frame_no, frame_no, fps_n, fps_d)
            e2 == decrement_pts(min_frame_no, e1.frame_no, fps_n, fps_d)
            from == IF splice THEN e2.frame_no ELSE frame_no
            list == IF splice
                    THEN erase_display_memory(erase_display_memory(bufferlist, e1), e2)
                    ELSE bufferlist
            d == decrement_pts(min_frame_no, from, fps_n, fps_d)
        IN  ScheduleFrom_appending(buffers, k - 1, d.frame_no,
                                   IF splice THEN None ELSE erase_frame_no,
                                   min_frame_no, fps_n, fps_d, list \o <<Stamped(buffers[k], d)>>)

\* lines 432-449: buffers[1..k] still to stamp, walking from the last one back
RECURSIVE ScheduleFrom(_, _, _, _, _, _, _, _)
ScheduleFrom(buffers, k, frame_no, erase_frame_no, min_frame_no, fps_n, fps_d, bufferlist) ==
    IF k = 0
    THEN [frame_no |-> frame_no, erase_display_frame_no |-> erase_frame_no,
          bufferlist |-> bufferlist]
    ELSE
        LET splice == erase_frame_no # None /\ erase_frame_no = frame_no
            e1 == decrement_pts(min_frame_no, frame_no, fps_n, fps_d)
            e2 == decrement_pts(min_frame_no, e1.frame_no, fps_n, fps_d)
            from == IF splice THEN e2.frame_no ELSE frame_no
            list == IF splice
                    THEN erase_display_memory(erase_display_memory(bufferlist, e1), e2)
                    ELSE bufferlist
            d == decrement_pts(min_frame_no, from, fps_n, fps_d)
        IN  ScheduleFrom(buffers, k - 1, d.frame_no, IF splice THEN None ELSE erase_frame_no,
                         min_frame_no, fps_n, fps_d, <<Stamped(buffers[k], d)>> \o list)

\* TakeErase taking over whatever is pending
TakeErase_always(pending, frame_no) == pending

\* lines 403-412: the pending erase this cue takes over, if it lies before the cue's frame
TakeErase(pending, frame_no) ==
    IF OptionLt(pending, frame_no) THEN pending ELSE None

\* State::default()
DefaultState == [framerate |-> <<30, 1>>, erase_display_frame_no |-> None, last_frame_no |-> 0]

---------------------------------------------------------------------------
(* The handlers as functions of the State st they find and of their inputs. *)
(* Each gives the State it leaves, what it hands to the srcpad (pushed) and *)
(* what it returns.                                                         *)

\* CueAccepted without the UTF-8 check
CueAccepted_any_bytes(pts, duration, text) ==
    pts # CLOCK_TIME_NONE /\ duration # CLOCK_TIME_NONE

\* lines 270-312: the cue has a pts and a duration and its text is UTF-8
CueAccepted(pts, duration, text) ==
    pts # CLOCK_TIME_NONE /\ duration # CLOCK_TIME_NONE /\ Utf8Valid(text)

\* NewEraseTarget without the two frames kept for the doubled code
NewEraseTarget_no_reserve(pts, duration, fps_n, fps_d) ==
    time_to_frames(pts + duration, fps_n, fps_d)

\* NewEraseTarget counted from the cue's start
NewEraseTarget_from_start(pts, duration, fps_n, fps_d) ==
    time_to_frames(pts, fps_n, fps_d) + 2

\* lines 426-430: the erase target a cue leaves pending
NewEraseTarget(pts, duration, fps_n, fps_d) ==
    time_to_frames(pts + duration, fps_n, fps_d) + 2

\* sink_chain for an accepted cue (lines 393-463); flow1 is what downstream returns
\* to the push of do_erase_display, flow2 to the push of the cue's own list
ChainScheduled(st, pts, duration, text, flow1, flow2) ==
    LET fps_n == st.framerate[1]
        fps_d == st.framerate[2]
        buffers == EncodeText(text)
        start_frame_no == time_to_frames(pts, fps_n, fps_d)
        taken == TakeErase(st.erase_display_frame_no, start_frame_no)
        frame_no == start_frame_no + 2
        min_frame_no == st.last_frame_no
        walked == ScheduleFrom(buffers, Len(buffers), frame_no, taken, min_frame_no,
                               fps_n, fps_d, <<>>)
        left == walked.erase_display_frame_no
        erased == do_erase_display(min_frame_no, left, fps_n, fps_d, flow1)
        after == [framerate |-> st.framerate,
                  erase_display_frame_no |-> NewEraseTarget(pts, duration, fps_n, fps_d),
                  last_frame_no |-> IF left # None THEN erased.last_frame_no ELSE frame_no]
    IN  IF left # None /\ flow1 # "Ok"
        THEN [state |-> after, pushed |-> erased.pushed, ret |-> flow1]
        ELSE [state |-> after,
              pushed |-> (IF left # None THEN erased.pushed ELSE <<>>)
                         \o push_list(walked.bufferlist,
                                      IF left # None THEN left ELSE min_frame_no,
                                      walked.frame_no, fps_n, fps_d, flow2),
              ret |-> flow2]

\* sink_chain
ChainResult(st, pts, duration, text, flow1, flow2) ==
    IF CueAccepted(pts, duration, text)
    THEN ChainScheduled(st, pts, duration, text, flow1, flow2)
    ELSE [state |-> st, pushed |-> <<>>, ret |-> "Error"]

LATENCY_BUFFERS == 74

\* GapResolves without the latency taken off the gap's frame number
GapResolves_no_latency(st, timestamp, duration) ==
    LET frame_no == time_to_frames(timestamp + duration, st.framerate[1], st.framerate[2])
    IN  /\ ~(frame_no < LATENCY_BUFFERS)
        /\ st.erase_display_frame_no # None
        /\ st.erase_display_frame_no <= frame_no

\* lines 547-558: the gap reaches far enough past the pending erase target
GapResolves(st, timestamp, duration) ==
    LET frame_no == time_to_frames(timestamp + duration, st.framerate[1], st.framerate[2])
    IN  /\ ~(frame_no < LATENCY_BUFFERS)
        /\ st.erase_display_frame_no # None
        /\ st.erase_display_frame_no <= frame_no - LATENCY_BUFFERS

\* ResolvePending leaving the target pending
ResolvePending_still_pending(st, flow) ==
    LET erased == do_erase_display(st.last_frame_no, st.erase_display_frame_no,
                                   st.framerate[1], st.framerate[2], flow)
    IN  [state |-> [st EXCEPT !.last_frame_no = erased.last_frame_no],
         pushed |-> erased.pushed]

\* lines 557-568 and 575-585: the pending erase is taken out of the State and pushed
ResolvePending(st, flow) ==
    LET erased == do_erase_display(st.last_frame_no, st.erase_display_frame_no,
                                   st.framerate[1], st.framerate[2], flow)
    IN  [state |-> [st EXCEPT !.erase_display_frame_no = None,
                              !.last_frame_no = erased.last_frame_no],
         pushed |-> erased.pushed]

\* sink_event, EventView::Gap: the event is not forwarded
GapResult(st, timestamp, duration, flow) ==
    IF GapResolves(st, timestamp, duration)
    THEN [state |-> ResolvePending(st, flow).state,
          pushed |-> ResolvePending(st, flow).pushed, ret |-> TRUE]
    ELSE [state |-> st, pushed |-> <<>>, ret |-> TRUE]

\* EosResult giving up when the push of the erase fails
EosResult_stops_on_failure(st, flow, accepted) ==
    LET resolved == IF st.erase_display_frame_no # None
                    THEN ResolvePending(st, flow)
                    ELSE [state |-> st, pushed |-> <<>>]
    IN  IF st.erase_display_frame_no # None /\ flow # "Ok"
        THEN [state |-> resolved.state, pushed |-> resolved.pushed, ret |-> FALSE]
        ELSE [state |-> resolved.state,
              pushed |-> resolved.pushed \o <<[kind |-> "event", type |-> "eos"]>>,
              ret |-> accepted]

\* sink_event, EventView::Eos: accepted is what pad.event_default returns
EosResult(st, flow, accepted) ==
    LET resolved == IF st.erase_display_frame_no # None
                    THEN ResolvePending(st, flow)
                    ELSE [state |-> st, pushed |-> <<>>]
    IN  [state |-> resolved.state,
         pushed |-> resolved.pushed \o <<[kind |-> "event", type |-> "eos"]>>,
         ret |-> accepted]

EmptyCaps == <<>>

\* sink_event, EventView::Caps: fixated is the downstream framerate nearest 30/1,
\* EmptyCaps when downstream allows no caps; accepted is what srcpad.push_event returns
CapsResult(st, fixated, accepted) ==
    IF fixated = EmptyCaps
    THEN [state |-> st, pushed |-> <<>>, ret |-> FALSE]
    ELSE [state |-> [st EXCEPT !.framerate = fixated],
          pushed |-> <<[kind |-> "event", type |-> "caps", framerate |-> fixated]>>,
          ret |-> accepted]

\* our_latency counted from the floor instead of from nothing
our_latency_from_floor(st) ==
    frames_to_time(st.last_frame_no + LATENCY_BUFFERS, st.framerate[1], st.framerate[2])

\* lines 484-489: the time LATENCY_BUFFERS frames take at the State's framerate
our_latency(st) ==
    frames_to_time(LATENCY_BUFFERS, st.framerate[1], st.framerate[2])

\* what a latency query holds before anyone has answered it
NewLatencyQuery == [live |-> FALSE, min |-> 0, max |-> CLOCK_TIME_NONE]

\* src_query, QueryView::Latency: peer is the result of sinkpad.peer_query, ret and
\* (live, min, max); the answer is ret and what the query holds afterwards
LatencyResult(st, peer) ==
    [state |-> st,
     pushed |-> <<>>,
     ret |-> IF peer.ret
             THEN [ret |-> TRUE, live |-> peer.live,
                   min |-> ClockTimeAdd(peer.min, our_latency(st)),
                   max |-> ClockTimeAdd(peer.max, our_latency(st))]
             ELSE [ret |-> FALSE, live |-> NewLatencyQuery.live,
                   min |-> NewLatencyQuery.min, max |-> NewLatencyQuery.max]]

\* change_state resetting on the way up only
ChangeStateResult_up_only(st, transition) ==
    IF transition = "ReadyToPaused" THEN DefaultState ELSE st

\* change_state: ReadyToPaused and PausedToReady put State::default() in place
ChangeStateResult(st, transition) ==
    IF transition \in {"ReadyToPaused", "PausedToReady"} THEN DefaultState ELSE st

---------------------------------------------------------------------------
(* Inputs *)

\* start timestamps and durations of cues, in ticks
CuePts == {0, SECOND, SECOND + (SECOND \div 5)}
CueDurations == {SECOND \div 25, (4 * SECOND) \div 5, 2 * SECOND}

\* texts of the cues of Spec
CueTexts == {<<>>, <<"a", "b", "A'">>}

\* the cues of Spec: the well-formed ones, and one for each way sink_chain refuses a cue
Cues ==
    [pts : CuePts, duration : CueDurations, text : CueTexts]
    \cup {[pts |-> CLOCK_TIME_NONE, duration |-> SECOND, text |-> <<"a">>],
          [pts |-> SECOND, duration |-> CLOCK_TIME_NONE, text |-> <<"a">>],
          [pts |-> SECOND, duration |-> SECOND, text |-> <<"a", "XX">>]}

\* what downstream returns to the (at most two) pushes of one sink_chain; the second
\* push is not made when the first fails
ChainFlows == {<<"Ok", "Ok">>, <<"Ok", "Flushing">>, <<"Flushing", "Flushing">>}

\* (timestamp, duration) of gap events
Gaps == {<<SECOND, SECOND \div 10>>, <<2 * SECOND, SECOND>>}

\* the framerates downstream may ask for
Framerates == {<<30, 1>>, <<25, 1>>}

\* what upstream answers to the latency query: no answer, a live source with a
\* bounded latency, a source that is not live (it has no maximum)
PeerLatencies ==
    {[ret |-> FALSE, live |-> FALSE, min |-> 0, max |-> CLOCK_TIME_NONE],
     [ret |-> TRUE, live |-> TRUE, min |-> SECOND \div 50, max |-> SECOND \div 10],
     [ret |-> TRUE, live |-> FALSE, min |-> 0, max |-> CLOCK_TIME_NONE]}

\* gst::StateChange.  PausedToPlaying and PlayingToPaused are left out: they take the
\* same `_ => ()` arms as NullToReady and no handler reads the element's state.
Transitions ==
    [NullToReady     |-> <<"Null", "Ready">>,
     ReadyToPaused   |-> <<"Ready", "Paused">>,
     PausedToReady   |-> <<"Paused", "Ready">>,
     ReadyToNull     |-> <<"Ready", "Null">>]

---------------------------------------------------------------------------
(* The element *)

State == [framerate |-> framerate, erase_display_frame_no |-> erase_display_frame_no,
          last_frame_no |-> last_frame_no]

\* the caption frames of every list in pushed, in delivery order
RECURSIVE Frames(_)
Frames(pushed) ==
    IF pushed = <<>> THEN <<>>
    ELSE (IF Head(pushed).kind = "list" THEN Head(pushed).buffers ELSE <<>>)
         \o Frames(Tail(pushed))

IsErase(b) == b.cc = eia608_control_command("erase_display_memory")

EraseCount(pushed) == Cardinality({i \in 1..Len(Frames(pushed)) : IsErase(Frames(pushed)[i])})

AllOk(pushed) == \A i \in 1..Len(pushed) : pushed[i].kind = "list" => pushed[i].flow = "Ok"

\* What a session (the time since the last reset) has seen:
\*   prev_pts, prev_T  the pts and the target frame number floor(pts in frames) + 2 of
\*                     the cue scheduled last (None, 0 before the first)
\*   plain             so far the cues came with non-decreasing pts, the framerate did
\*                     not change after the first cue and every push returned Ok
\*   resolutions       how often the erase target set by the last cue has been
\*                     delivered (counted to 3)
\*   eos_since_cue     an end-of-stream was handled after the last cue
SessionStart ==
    [prev_pts |-> None, prev_T |-> 0, plain |-> TRUE, resolutions |-> 0,
     eos_since_cue |-> FALSE]

Min(a, b) == IF a < b THEN a ELSE b

Ran(op, args, res) ==
    /\ framerate' = res.state.framerate
    /\ erase_display_frame_no' = res.state.erase_display_frame_no
    /\ last_frame_no' = res.state.last_frame_no
    /\ out' = res.pushed
    /\ ev' = [op |-> op, args |-> args, ret |-> res.ret, pre |-> State, hist |-> hist]
    /\ UNCHANGED encVars
    /\ UNCHANGED cellVars

\* the pads take buffers and events only while the element is PAUSED (or PLAYING)
Streaming == current_state = "Paused"

sink_chain(pts, duration, text, flow1, flow2) ==
    LET res == ChainResult(State, pts, duration, text, flow1, flow2)
    IN  /\ Streaming
        /\ Ran("chain", [pts |-> pts, duration |-> duration, text |-> text], res)
        /\ hist' = IF CueAccepted(pts, duration, text)
                   THEN [prev_pts |-> pts,
                         prev_T |-> time_to_frames(pts, framerate[1], framerate[2]) + 2,
                         plain |-> /\ hist.plain
                                   /\ hist.prev_pts # None => hist.prev_pts <= pts
                                   /\ AllOk(res.pushed),
                         resolutions |-> 0,
                         eos_since_cue |-> FALSE]
                   ELSE hist
        /\ UNCHANGED current_state

sink_event_caps(fixated, accepted) ==
    LET res == CapsResult(State, fixated, accepted)
    IN  /\ Streaming
        /\ Ran("caps", [fixated |-> fixated], res)
        /\ hist' = [hist EXCEPT !.plain = @ /\ (hist.prev_pts = None
                                                \/ res.state.framerate = framerate)]
        /\ UNCHANGED current_state

sink_event_gap(timestamp, duration, flow) ==
    LET res == GapResult(State, timestamp, duration, flow)
    IN  /\ Streaming
        /\ Ran("gap", [timestamp |-> timestamp, duration |-> duration], res)
        /\ hist' = [hist EXCEPT !.plain = @ /\ AllOk(res.pushed),
                                !.resolutions = Min(3, @ + (EraseCount(res.pushed) \div 2))]
        /\ UNCHANGED current_state

sink_event_eos(flow, accepted) ==
    LET res == EosResult(State, flow, accepted)
    IN  /\ Streaming
        /\ Ran("eos", [flow |-> flow, accepted |-> accepted], res)
        /\ hist' = [hist EXCEPT !.plain = @ /\ AllOk(res.pushed),
                                !.resolutions = Min(3, @ + (EraseCount(res.pushed) \div 2)),
                                !.eos_since_cue = TRUE]
        /\ UNCHANGED current_state

\* a query may come at any time, from any thread, whatever the element's state
src_query(peer) ==
    /\ Ran("query", peer, LatencyResult(State, peer))
    /\ UNCHANGED <<hist, current_state>>

change_state(transition) ==
    /\ current_state = Transitions[transition][1]
    /\ current_state' = Transitions[transition][2]
    /\ Ran("change_state", [transition |-> transition],
           [state |-> ChangeStateResult(State, transition), pushed |-> <<>>, ret |-> "Success"])
    /\ hist' = IF transition \in {"ReadyToPaused", "PausedToReady"} THEN SessionStart ELSE hist

Init ==
    /\ framerate = DefaultState.framerate
    /\ erase_display_frame_no = DefaultState.erase_display_frame_no
    /\ last_frame_no = DefaultState.last_frame_no
    /\ current_state = "Null"
    /\ ev = [op |-> "new", args |-> <<>>, ret |-> "Success", pre |-> DefaultState,
             hist |-> SessionStart]
    /\ out = <<>>
    /\ hist = SessionStart
    /\ data = <<>>
    /\ idx = 1
    /\ enc = EncodeStart
    /\ encpc = "idle"
    /\ todo = <<>>
    /\ borrow = "free"
    /\ panicked = FALSE
    /\ qtodo = <<>>

Next ==
    \/ \E cue \in Cues, flows \in ChainFlows :
          sink_chain(cue.pts, cue.duration, cue.text, flows[1], flows[2])
    \/ \E fixated \in Framerates \cup {EmptyCaps}, accepted \in BOOLEAN :
          sink_event_caps(fixated, accepted)
    \/ \E gap \in Gaps, flow \in FlowReturns : sink_event_gap(gap[1], gap[2], flow)
    \/ \E flow \in FlowReturns, accepted \in BOOLEAN : sink_event_eos(flow, accepted)
    \/ \E peer \in PeerLatencies : src_query(peer)
    \/ \E transition \in DOMAIN Transitions : change_state(transition)

Spec == Init /\ [][Next]_vars

---------------------------------------------------------------------------
(* EncSpec: the encoding loop of sink_chain, one character at a time *)

Repeat(c, n) == [i \in 1..n |-> c]

\* every text of at most MaxTextLen characters (bytes that are not UTF-8 included),
\* and lines that run past the 32nd column
EncTexts ==
    UNION {[1..n -> Chars \cup {"XX"}] : n \in 0..MaxTextLen}
    \cup {Repeat("a", 32), Repeat("a", 33), Repeat("A'", 33),
          Repeat("a", 33) \o <<"LF">> \o Repeat("b", 34),
          Repeat("A'", 32) \o <<"LF">> \o Repeat("A'", 32)}

EncInit ==
    /\ framerate = DefaultState.framerate
    /\ erase_display_frame_no = DefaultState.erase_display_frame_no
    /\ last_frame_no = DefaultState.last_frame_no
    /\ current_state = "Paused"
    /\ ev = [op |-> "new", args |-> <<>>, ret |-> "Success", pre |-> DefaultState,
             hist |-> SessionStart]
    /\ out = <<>>
    /\ hist = SessionStart
    /\ data \in EncTexts
    /\ idx = 1
    /\ enc = EncodeStart
    /\ encpc = "decode"
    /\ todo = <<>>
    /\ borrow = "free"
    /\ panicked = FALSE
    /\ qtodo = <<>>

\* lines 302-312: the text is taken as UTF-8 or the cue is refused
EncDecode ==
    /\ encpc = "decode"
    /\ encpc' = IF Utf8Valid(data) THEN "loop" ELSE "error"
    /\ UNCHANGED <<data, idx, enc>>
    /\ UNCHANGED elemVars
    /\ UNCHANGED cellVars

\* lines 315-384: one turn of the loop
EncLoop ==
    /\ encpc = "loop"
    /\ idx <= Len(data)
    /\ ~enc.stopped
    /\ enc' = [EncodeChar(enc, data[idx]) EXCEPT
                  !.before = [prev_char |-> enc.prev_char, col |-> enc.col,
                              buffers |-> Len(enc.buffers)]]
    /\ idx' = idx + 1
    /\ UNCHANGED <<data, encpc>>
    /\ UNCHANGED elemVars
    /\ UNCHANGED cellVars

\* lines 386-390: after the loop
EncEnd ==
    /\ encpc = "loop"
    /\ idx > Len(data) \/ enc.stopped
    /\ enc' = [enc EXCEPT !.buffers = EncodeFinish(enc)]
    /\ encpc' = "done"
    /\ UNCHANGED <<data, idx>>
    /\ UNCHANGED elemVars
    /\ UNCHANGED cellVars

EncNext == EncDecode \/ EncLoop \/ EncEnd

EncSpec == EncInit /\ [][EncNext]_vars

---------------------------------------------------------------------------
(* CellSpec: the handlers statement by statement.  A handler is the sequence   *)
(* of its steps that touch the AtomicRefCell or leave the element:             *)
(*   borrow_mut, borrow   state.borrow_mut(), state.borrow()                   *)
(*   drop                 the guard is dropped, by drop(state) or at the end   *)
(*                        of its scope                                         *)
(*   set                  a write through the guard (arg is the field)         *)
(*   call                 a call out of the element (arg is the callee; val    *)
(*                        becomes TRUE once a query has come back in during it)*)

Step(op, arg, val) == [op |-> op, arg |-> arg, val |-> val]

\* push_list dropping its guard only after the gap event is pushed
Steps_push_list_late_drop(from_frame_no, new_frame_no) ==
    (IF from_frame_no # new_frame_no
     THEN <<Step("borrow_mut", "push_list", 206),
            Step("call", "srcpad.push_event", FALSE),
            Step("drop", "push_list", 226)>>
     ELSE <<>>)
    \o <<Step("call", "srcpad.push_list", FALSE)>>

\* push_list (lines 205-230)
Steps_push_list(from_frame_no, new_frame_no) ==
    (IF from_frame_no # new_frame_no
     THEN <<Step("borrow_mut", "push_list", 206),
            Step("drop", "push_list", 226),
            Step("call", "srcpad.push_event", FALSE)>>
     ELSE <<>>)
    \o <<Step("call", "srcpad.push_list", FALSE)>>

\* do_erase_display (lines 238-258)
Steps_do_erase_display(min_frame_no, erase_frame_no, fps_n, fps_d) ==
    LET d1 == decrement_pts(min_frame_no, erase_frame_no, fps_n, fps_d)
        d2 == decrement_pts(min_frame_no, d1.frame_no, fps_n, fps_d)
    IN  <<Step("borrow_mut", "do_erase_display", 238),
          Step("set", "last_frame_no", erase_frame_no),
          Step("drop", "do_erase_display", 256)>>
        \o Steps_push_list(min_frame_no, d2.frame_no)

\* sink_chain (lines 270-463); flow1 is what the push of do_erase_display returns
Steps_sink_chain(st, pts, duration, text, flow1) ==
    LET fps_n == st.framerate[1]
        fps_d == st.framerate[2]
        buffers == EncodeText(text)
        start_frame_no == time_to_frames(pts, fps_n, fps_d)
        walked == ScheduleFrom(buffers, Len(buffers), start_frame_no + 2,
                               TakeErase(st.erase_display_frame_no, start_frame_no),
                               st.last_frame_no, fps_n, fps_d, <<>>)
        left == walked.erase_display_frame_no
    IN  IF pts = CLOCK_TIME_NONE \/ duration = CLOCK_TIME_NONE THEN <<>>
        ELSE IF ~Utf8Valid(text)
        THEN <<Step("borrow_mut", "sink_chain", 294), Step("drop", "sink_chain", 312)>>
        ELSE <<Step("borrow_mut", "sink_chain", 294),
               Step("set", "last_frame_no", start_frame_no + 2),
               Step("set", "erase_display_frame_no",
                    NewEraseTarget(pts, duration, fps_n, fps_d)),
               Step("drop", "sink_chain", 451)>>
             \o (IF left # None
                 THEN Steps_do_erase_display(st.last_frame_no, left, fps_n, fps_d)
                 ELSE <<>>)
             \o (IF left # None /\ flow1 # "Ok"
                 THEN <<>>
                 ELSE Steps_push_list(IF left # None THEN left ELSE st.last_frame_no,
                                      walked.frame_no))

\* src_query, QueryView::Latency (lines 472-496)
Steps_src_query(peer) ==
    <<Step("call", "sinkpad.peer_query", FALSE)>>
    \o (IF peer.ret
        THEN <<Step("borrow", "src_query", 477), Step("drop", "src_query", 495)>>
        ELSE <<>>)

\* sink_event, EventView::Caps (lines 509-537)
Steps_sink_event_caps(fixated) ==
    <<Step("call", "srcpad.get_allowed_caps", FALSE)>>
    \o (IF fixated = EmptyCaps
        THEN <<>>
        ELSE <<Step("borrow_mut", "sink_event", 528),
               Step("set", "framerate", fixated),
               Step("drop", "sink_event", 535),
               Step("call", "srcpad.push_event", FALSE)>>)

\* sink_event, EventView::Gap (lines 540-571)
Steps_sink_event_gap(st, timestamp, duration) ==
    <<Step("borrow_mut", "sink_event", 540)>>
    \o (IF GapResolves(st, timestamp, duration)
        THEN <<Step("set", "erase_display_frame_no", None),
               Step("drop", "sink_event", 562)>>
             \o Steps_do_erase_display(st.last_frame_no, st.erase_display_frame_no,
                                       st.framerate[1], st.framerate[2])
        ELSE <<Step("drop", "sink_event", 571)>>)

\* sink_event, EventView::Eos (lines 574-590)
Steps_sink_event_eos(st) ==
    <<Step("borrow_mut", "sink_event", 574)>>
    \o (IF st.erase_display_frame_no # None
        THEN <<Step("set", "erase_display_frame_no", None),
               Step("drop", "sink_event", 579)>>
             \o Steps_do_erase_display(st.last_frame_no, st.erase_display_frame_no,
                                       st.framerate[1], st.framerate[2])
        ELSE <<Step("drop", "sink_event", 586)>>)
    \o <<Step("call", "pad.event_default", FALSE)>>

\* change_state (lines 700-718); the element's state moves in parent_change_state
Steps_change_state(transition) ==
    (IF transition = "ReadyToPaused"
     THEN <<Step("borrow_mut", "change_state", 702),
            Step("set", "State", DefaultState),
            Step("drop", "change_state", 704)>>
     ELSE <<>>)
    \o <<Step("call", "parent_change_state", FALSE),
         Step("set", "current_state", Transitions[transition][2])>>
    \o (IF transition = "PausedToReady"
        THEN <<Step("borrow_mut", "change_state", 712),
               Step("set", "State", DefaultState),
               Step("drop", "change_state", 714)>>
        ELSE <<>>)

\* the cues of CellSpec: those of Spec, the texts apart
CellCues == {cue \in Cues : cue.text # <<"a", "b", "A'">>}

\* the answers upstream gives a query that comes in during a call
CellPeers == {peer \in PeerLatencies : peer.live = peer.ret}

Idle == todo = <<>> /\ ~panicked

\* a pad function or change_state is entered
Enter(steps) ==
    /\ Idle
    /\ steps # <<>>
    /\ todo' = steps
    /\ UNCHANGED <<borrow, panicked, qtodo>>
    /\ UNCHANGED elemVars
    /\ UNCHANGED encVars

\* the running handler takes its next step; a borrow that finds the cell taken
\* panics, and the unwinding ends the handler and drops its guards
Advance ==
    LET step == Head(todo)
        refused == \/ step.op = "borrow_mut" /\ borrow # "free"
                   \/ step.op = "borrow" /\ borrow = "mut"
    IN  /\ todo # <<>>
        /\ panicked' = refused
        /\ todo' = IF refused THEN <<>> ELSE Tail(todo)
        /\ borrow' = CASE refused -> "free"
                       [] step.op = "borrow_mut" -> "mut"
                       [] step.op = "borrow" -> "shared"
                       [] step.op = "drop" -> "free"
                       [] OTHER -> borrow
        /\ framerate' =
              IF refused \/ step.op # "set" THEN framerate
              ELSE IF step.arg = "framerate" THEN step.val
              ELSE IF step.arg = "State" THEN step.val.framerate
              ELSE framerate
        /\ erase_display_frame_no' =
              IF refused \/ step.op # "set" THEN erase_display_frame_no
              ELSE IF step.arg = "erase_display_frame_no" THEN step.val
              ELSE IF step.arg = "State" THEN step.val.erase_display_frame_no
              ELSE erase_display_frame_no
        /\ last_frame_no' =
              IF refused \/ step.op # "set" THEN last_frame_no
              ELSE IF step.arg = "last_frame_no" THEN step.val
              ELSE IF step.arg = "State" THEN step.val.last_frame_no
              ELSE last_frame_no
        /\ current_state' =
              IF ~refused /\ step.op = "set" /\ step.arg = "current_state"
              THEN step.val ELSE current_state
        /\ UNCHANGED <<ev, out, hist, qtodo>>
        /\ UNCHANGED encVars

\* while a call into the srcpad (or the default event handler) is under way,
\* downstream sends a latency query back into the element on the same thread
Reenter(peer) ==
    /\ todo # <<>>
    /\ Head(todo).op = "call"
    /\ Head(todo).arg \in {"srcpad.push_list", "srcpad.push_event", "pad.event_default"}
    /\ Head(todo).val = FALSE
    /\ todo' = Steps_src_query(peer) \o <<[Head(todo) EXCEPT !.val = TRUE]>> \o Tail(todo)
    /\ UNCHANGED <<borrow, panicked, qtodo>>
    /\ UNCHANGED elemVars
    /\ UNCHANGED encVars

CellNext ==
    \/ \E cue \in CellCues, flow1 \in FlowReturns :
          Streaming /\ Enter(Steps_sink_chain(State, cue.pts, cue.duration, cue.text, flow1))
    \/ \E fixated \in Framerates \cup {EmptyCaps} :
          Streaming /\ Enter(Steps_sink_event_caps(fixated))
    \/ \E gap \in Gaps : Streaming /\ Enter(Steps_sink_event_gap(State, gap[1], gap[2]))
    \/ Streaming /\ Enter(Steps_sink_event_eos(State))
    \/ \E peer \in CellPeers : Enter(Steps_src_query(peer))
    \/ \E transition \in DOMAIN Transitions :
          current_state = Transitions[transition][1] /\ Enter(Steps_change_state(transition))
    \/ Advance
    \/ \E peer \in CellPeers : Reenter(peer)

CellSpec == Init /\ [][CellNext]_vars

---------------------------------------------------------------------------
(* ThreadSpec: the pad functions of the sink pad (and change_state) run on the *)
(* streaming thread, one after the other, while latency queries reach src_query *)
(* on another thread.  The AtomicRefCell is all there is between them: the      *)
(* streaming thread only takes it with borrow_mut, the query only with borrow,  *)
(* and a borrow that finds the other kind of guard alive panics (it does not    *)
(* wait).  A panic unwinds its own thread and leaves the guard of the other.    *)

\* the value of a field of the State once the step is taken
Written(step, field, old) ==
    IF step.op # "set" THEN old
    ELSE IF step.arg = field THEN step.val
    ELSE IF step.arg = "State" THEN step.val[field]
    ELSE old

\* the streaming thread takes its next step
StreamingStep ==
    LET step == Head(todo)
        refused == step.op = "borrow_mut" /\ borrow # "free"
    IN  /\ todo # <<>>
        /\ panicked' = (panicked \/ refused)
        /\ todo' = IF refused THEN <<>> ELSE Tail(todo)
        /\ borrow' = CASE refused -> borrow
                       [] step.op = "borrow_mut" -> "mut"
                       [] step.op = "drop" -> "free"
                       [] OTHER -> borrow
        /\ framerate' = IF refused THEN framerate ELSE Written(step, "framerate", framerate)
        /\ erase_display_frame_no' =
              IF refused THEN erase_display_frame_no
              ELSE Written(step, "erase_display_frame_no", erase_display_frame_no)
        /\ last_frame_no' =
              IF refused THEN last_frame_no ELSE Written(step, "last_frame_no", last_frame_no)
        /\ current_state' =
              IF ~refused /\ step.op = "set" /\ step.arg = "current_state"
              THEN step.val ELSE current_state
        /\ UNCHANGED <<ev, out, hist, qtodo>>
        /\ UNCHANGED encVars

\* a latency query reaches src_query on the other thread
QueryEnter(peer) ==
    /\ qtodo = <<>>
    /\ qtodo' = Steps_src_query(peer)
    /\ UNCHANGED <<todo, borrow, panicked>>
    /\ UNCHANGED elemVars
    /\ UNCHANGED encVars

\* the query takes its next step
QueryStep ==
    LET step == Head(qtodo)
        refused == step.op = "borrow" /\ borrow = "mut"
    IN  /\ qtodo # <<>>
        /\ panicked' = (panicked \/ refused)
        /\ qtodo' = IF refused THEN <<>> ELSE Tail(qtodo)
        /\ borrow' = CASE refused -> borrow
                       [] step.op = "borrow" -> "shared"
                       [] step.op = "drop" -> "free"
                       [] OTHER -> borrow
        /\ UNCHANGED todo
        /\ UNCHANGED elemVars
        /\ UNCHANGED encVars

ThreadNext ==
    \/ \E cue \in CellCues, flow1 \in FlowReturns :
          Streaming /\ Enter(Steps_sink_chain(State, cue.pts, cue.duration, cue.text, flow1))
    \/ \E fixated \in Framerates \cup {EmptyCaps} :
          Streaming /\ Enter(Steps_sink_event_caps(fixated))
    \/ \E gap \in Gaps : Streaming /\ Enter(Steps_sink_event_gap(State, gap[1], gap[2]))
    \/ Streaming /\ Enter(Steps_sink_event_eos(State))
    \/ \E transition \in DOMAIN Transitions :
          current_state = Transitions[transition][1] /\ Enter(Steps_change_state(transition))
    \/ StreamingStep
    \/ \E peer \in CellPeers : QueryEnter(peer)
    \/ QueryStep

ThreadSpec == Init /\ [][ThreadNext]_vars

---------------------------------------------------------------------------
(* Properties *)

\* the handler that ran last was sink_chain and it did not refuse its cue
CueScheduled == ev.op = "chain" /\ ev.ret # "Error"

Time(frame_no) == frames_to_time(frame_no, framerate[1], framerate[2])

\* C1: no time travel.  In a session whose cues come with non-decreasing start
\* timestamps (gaps and end-of-streams in between, the framerate unchanged, every
\* push accepted), every caption frame delivered while a cue is processed is stamped
\* no earlier than the time of T_prev, the target frame number floor(pts in frames) + 2
\* of the cue processed before it (0 for the first cue of the session).
C1_NoTimeTravel ==
    (CueScheduled /\ hist.plain) =>
        \A i \in 1..Len(Frames(out)) : Frames(out)[i].pts >= Time(ev.hist.prev_T)

\* the lists delivered, and the lists and gap events delivered, in order
Lists(pushed) == SelectSeq(pushed, LAMBDA x : x.kind = "list")
ListsAndGaps(pushed) == SelectSeq(pushed, LAMBDA x : x.kind \in {"list", "gap"})

\* C2: in every buffer list delivered downstream (by sink_chain or by
\* do_erase_display) the buffers do not overlap and their timestamps never go back:
\* pts + duration of a buffer is at most the pts of the next one; and a buffer has
\* duration 0 only if its frame number did not move when it was stamped, being
\* already at the floor or below it.
C2_ListsOrdered ==
    \A i \in 1..Len(out) :
        out[i].kind = "list" =>
            LET l == out[i].buffers
            IN  /\ \A j \in 1..(Len(l) - 1) : l[j].pts + l[j].duration <= l[j + 1].pts
                /\ \A j \in 1..Len(l) : l[j].duration = 0 => ~l[j].stepped

\* a cue's list with an erase spliced in, part of it packed on the floor
C2_Witness ==
    /\ CueScheduled
    /\ \E i \in 1..Len(out) :
          /\ out[i].kind = "list"
          /\ Len(out[i].buffers) > 2
          /\ \E j \in 1..Len(out[i].buffers) : IsErase(out[i].buffers[j])
          /\ \E j \in 1..Len(out[i].buffers) : out[i].buffers[j].duration = 0
          /\ \E j \in 1..Len(out[i].buffers) : out[i].buffers[j].duration > 0

\* the last sink_chain found an erase target pending that lies before its cue's
\* start frame number
ErasePendingBeforeCue ==
    /\ CueScheduled
    /\ ev.pre.erase_display_frame_no # None
    /\ ev.pre.erase_display_frame_no
          < time_to_frames(ev.args.pts, ev.pre.framerate[1], ev.pre.framerate[2])

ErasePositions == {i \in 1..Len(Frames(out)) : IsErase(Frames(out)[i])}

\* the two erase frames sit at i and i + 1 of the frames delivered, stamped by the
\* backward walk from the target: on frames e - 2 and e - 1 where the floor allows
EraseStampedAt(i) ==
    LET e == ev.pre.erase_display_frame_no
        fr == Frames(out)
    IN  /\ ErasePositions = {i, i + 1}
        /\ fr[i].pts = Time(fr[i].frame_no)
        /\ fr[i + 1].pts = Time(fr[i + 1].frame_no)
        /\ fr[i].frame_no <= fr[i + 1].frame_no
        /\ fr[i + 1].frame_no <= e
        /\ ev.pre.last_frame_no <= e - 2 => fr[i].frame_no = e - 2 /\ fr[i + 1].frame_no = e - 1

\* C3, as claimed: when a cue B finds pending an erase target e set by an earlier
\* cue and e is below B's start frame number, the two erase-display frames for e are
\* delivered ahead of B's first resume_caption_loading pair, that is ahead of every
\* frame of B, stamped by the backward walk from e.
C3_EraseBeforeResume ==
    ErasePendingBeforeCue => EraseStampedAt(1)

\* C3, amended: the two erase-display frames are delivered ahead of B's
\* end_of_caption pair: no end_of_caption frame comes before them.  They lead B's
\* frames only when they go out as a list of their own.
C3_EraseBeforeEndOfCaption ==
    ErasePendingBeforeCue =>
        \E i \in 1..Len(Frames(out)) :
            /\ EraseStampedAt(i)
            /\ \A j \in 1..(i + 1) :
                  Frames(out)[j].cc # eia608_control_command("end_of_caption")
            /\ Len(Lists(out)) = 2 => i = 1

\* the erase was spliced into the cue's own list, behind frames of the cue
C3_Witness ==
    /\ ErasePendingBeforeCue
    /\ ev.ret = "Ok"
    /\ Len(Lists(out)) = 1
    /\ \E i \in 3..Len(Frames(out)) : ErasePositions = {i, i + 1}

\* C4: a pending erase is resolved at most once.  An end-of-stream that finds an
\* erase pending delivers exactly one list, of exactly two erase-display frames, and
\* leaves nothing pending; an end-of-stream that comes after another with no cue in
\* between delivers nothing and leaves the State as it found it.
C4_ResolvedOnce ==
    /\ hist.resolutions <= 1
    /\ CueScheduled => ev.hist.resolutions + (Cardinality(ErasePositions) \div 2) <= 1
    /\ (ev.op = "eos" /\ ev.pre.erase_display_frame_no # None) =>
          /\ Len(Lists(out)) = 1
          /\ Len(Frames(out)) = 2
          /\ ErasePositions = {1, 2}
          /\ erase_display_frame_no = None
    /\ (ev.op = "eos" /\ ev.hist.eos_since_cue) =>
          /\ ListsAndGaps(out) = <<>>
          /\ State = ev.pre

\* a second end-of-stream, after the first has resolved the erase
C4_Witness ==
    /\ ev.op = "eos"
    /\ ev.hist.eos_since_cue
    /\ ev.hist.resolutions = 1
    /\ ev.hist.prev_pts # None

\* C5: a gap event ending on frame g = floor(frames(timestamp + duration)) resolves
\* the pending erase exactly when g >= 74 and the pending target e is at most g - 74.
\* It then delivers the two erase-display frames, walked back from e against the
\* floor last_frame_no, and leaves nothing pending; otherwise it delivers nothing and
\* leaves last_frame_no and the pending target as they were.
C5_GapResolution ==
    ev.op = "gap" =>
        LET g == time_to_frames(ev.args.timestamp + ev.args.duration,
                                ev.pre.framerate[1], ev.pre.framerate[2])
            e == ev.pre.erase_display_frame_no
            m == ev.pre.last_frame_no
            second == IF e > m THEN e - 1 ELSE e
            first == IF second > m THEN second - 1 ELSE second
            fr == Frames(out)
        IN  IF g >= 74 /\ e # None /\ e <= g - 74
            THEN /\ Len(Lists(out)) = 1
                 /\ Len(fr) = 2
                 /\ ErasePositions = {1, 2}
                 /\ fr[1].pts = Time(first)
                 /\ fr[2].pts = Time(second)
                 /\ erase_display_frame_no = None
            ELSE /\ out = <<>>
                 /\ last_frame_no = m
                 /\ erase_display_frame_no = e

\* a gap that resolved the pending erase
C5_Witness ==
    ev.op = "gap" /\ ev.pre.erase_display_frame_no # None /\ Len(Frames(out)) = 2

\* C6: a cue without a timestamp, without a duration or with text that is not UTF-8
\* makes sink_chain return an error, deliver nothing (no caption frame, no gap) and
\* leave the State as it was.
C6_RefusedCue ==
    (/\ ev.op = "chain"
     /\ \/ ev.args.pts = CLOCK_TIME_NONE
        \/ ev.args.duration = CLOCK_TIME_NONE
        \/ \E i \in 1..Len(ev.args.text) : ev.args.text[i] = "XX") =>
        /\ ev.ret = "Error"
        /\ out = <<>>
        /\ State = ev.pre

\* a cue with bad bytes, refused while an erase is pending
C6_Witness ==
    /\ ev.op = "chain"
    /\ \E i \in 1..Len(ev.args.text) : ev.args.text[i] = "XX"
    /\ ev.pre.erase_display_frame_no # None
    /\ ev.pre.last_frame_no > 0

\* C7: a reset (the ReadyToPaused or PausedToReady transition) leaves the default
\* State: last_frame_no 0, nothing pending, 30/1.  An erase pending before the reset
\* is not delivered after it: an end-of-stream or a gap that comes before the first
\* cue of the session delivers nothing, and that first cue is scheduled against
\* floor 0 with nothing pending.
C7_Reset ==
    /\ (ev.op = "change_state" /\ ev.args.transition \in {"ReadyToPaused", "PausedToReady"}) =>
          /\ last_frame_no = 0
          /\ erase_display_frame_no = None
          /\ framerate = <<30, 1>>
    /\ (ev.op \in {"eos", "gap"} /\ ev.hist.prev_pts = None) => ListsAndGaps(out) = <<>>
    /\ (CueScheduled /\ ev.hist.prev_pts = None) =>
          /\ ev.pre.last_frame_no = 0
          /\ ev.pre.erase_display_frame_no = None

\* a reset that found an erase pending
C7_Witness ==
    /\ ev.op = "change_state"
    /\ ev.args.transition = "PausedToReady"
    /\ ev.pre.erase_display_frame_no # None
    /\ ev.pre.last_frame_no > 0

\* C11: when upstream answers the latency query with (live, min, max), src_query
\* answers (live, min + L, max + L), L being the time 74 frames take at the
\* State's framerate (a maximum that upstream leaves unbounded stays unbounded).
\* Nothing but the framerate and upstream's answer enters the result, so the same
\* query at the same framerate gives the same result whatever was processed in
\* between; the query delivers nothing and leaves the State as it was.
C11_Latency ==
    (ev.op = "query" /\ ev.args.ret) =>
        LET L == scale_round(74 * SECOND, framerate[2], framerate[1])
        IN  /\ ev.ret.ret
            /\ ev.ret.live = ev.args.live
            /\ ev.ret.min = ev.args.min + L
            /\ ev.ret.max = IF ev.args.max = CLOCK_TIME_NONE THEN CLOCK_TIME_NONE
                            ELSE ev.args.max + L
            /\ State = ev.pre
            /\ out = <<>>

\* a query answered at 25/1 while the floor has moved and an erase is pending
C11_Witness ==
    /\ ev.op = "query"
    /\ ev.args.ret
    /\ ev.args.max # CLOCK_TIME_NONE
    /\ framerate = <<25, 1>>
    /\ ev.pre.last_frame_no > 0
    /\ ev.pre.erase_display_frame_no # None

\* the push of a list was refused by downstream
PushFailed == \E i \in 1..Len(out) : out[i].kind = "list" /\ out[i].flow # "Ok"

\* C12: when the push of the erase-display frames fails while a gap or an
\* end-of-stream resolves the pending erase, nobody is told: the gap handler returns
\* true, the end-of-stream event is still forwarded by the default handler (whose
\* answer is the handler's), nothing is pending afterwards and last_frame_no is the
\* resolved target.
C12_FailureSwallowed ==
    (ev.op \in {"gap", "eos"} /\ PushFailed) =>
        /\ ev.op = "gap" => ev.ret = TRUE
        /\ ev.op = "eos" => /\ out[Len(out)] = [kind |-> "event", type |-> "eos"]
                            /\ ev.ret = ev.args.accepted
        /\ erase_display_frame_no = None
        /\ last_frame_no = ev.pre.erase_display_frame_no

\* an end-of-stream whose erase downstream refused while flushing
C12_Witness ==
    /\ ev.op = "eos"
    /\ PushFailed
    /\ ev.args.accepted
    /\ Len(Frames(out)) = 2

\* C13: when sink_chain has processed a cue and returned Ok, last_frame_no is the
\* cue's target frame number before the backward walk, floor(pts in frames) + 2,
\* also when an erase pending from an earlier cue was delivered with the cue,
\* spliced into its list or as a list of its own.
C13_LastFrameNo ==
    (ev.op = "chain" /\ ev.ret = "Ok") =>
        last_frame_no
            = time_to_frames(ev.args.pts, ev.pre.framerate[1], ev.pre.framerate[2]) + 2

\* the last sink_chain found an erase target pending that does not lie before its
\* cue's start frame number
ErasePendingNotBeforeCue ==
    /\ CueScheduled
    /\ ev.pre.erase_display_frame_no # None
    /\ ev.pre.erase_display_frame_no
          >= time_to_frames(ev.args.pts, ev.pre.framerate[1], ev.pre.framerate[2])

\* the target floor(frames(pts + duration)) + 2 of the cue of the last sink_chain
CueEraseTarget ==
    ((((ev.args.pts + ev.args.duration) * ev.pre.framerate[1] + (ev.pre.framerate[2] \div 2))
        \div ev.pre.framerate[2]) \div SECOND) + 2

\* C14, as claimed: a cue that finds pending an erase target e not below its start
\* frame number leaves it alone: no erase is delivered with the cue and e is still
\* the pending target afterwards.
C14_LeftPending ==
    ErasePendingNotBeforeCue =>
        /\ ErasePositions = {}
        /\ erase_display_frame_no = ev.pre.erase_display_frame_no

\* C14, amended: such a cue delivers no erase, and the target e does not stay: the
\* cue's own target floor(frames(pts + duration)) + 2 takes its place, so that e
\* is dropped without ever being delivered.
C14_Superseded ==
    ErasePendingNotBeforeCue =>
        /\ ErasePositions = {}
        /\ erase_display_frame_no = CueEraseTarget

\* a cue that starts before the pending target and ends on another frame
C14_Witness ==
    /\ ErasePendingNotBeforeCue
    /\ ev.ret = "Ok"
    /\ erase_display_frame_no # ev.pre.erase_display_frame_no

\* C15: after every cue that was encoded the pending erase target is
\* floor(frames(pts + duration)) + 2, whatever was pending before and whether or
\* not that was delivered with the cue.
C15_NewTarget ==
    CueScheduled =>
        erase_display_frame_no
            = time_to_frames(ev.args.pts + ev.args.duration,
                             ev.pre.framerate[1], ev.pre.framerate[2]) + 2

\* a cue that delivered the erase it found pending and left its own
C15_Witness ==
    /\ ErasePendingBeforeCue
    /\ Cardinality(ErasePositions) = 2
    /\ erase_display_frame_no > ev.pre.erase_display_frame_no

\* C16: the backward walk never assigns a frame number below the floor: every
\* buffer delivered for a cue or for an erase resolution is stamped on a frame
\* number >= state.last_frame_no as the handler found it, and within a list the
\* frame numbers never grow from a buffer to the one stamped after it (the one
\* before it in the list).
C16_Floor ==
    (CueScheduled \/ ev.op \in {"gap", "eos"}) =>
        /\ \A i \in 1..Len(Frames(out)) : Frames(out)[i].frame_no >= ev.pre.last_frame_no
        /\ \A i \in 1..Len(out) :
              out[i].kind = "list" =>
                  \A j \in 1..(Len(out[i].buffers) - 1) :
                      out[i].buffers[j].frame_no <= out[i].buffers[j + 1].frame_no

\* the frame number push_list is given as the previous end for the list at out[i]:
\* the floor the handler found, or the erase target when the erase went out as a
\* list of its own ahead of the cue's list
PreviousEnd(i) ==
    IF ev.op = "chain" /\ \E j \in 1..(i - 1) : out[j].kind = "list"
    THEN ev.pre.erase_display_frame_no
    ELSE ev.pre.last_frame_no

\* C17: a gap event is sent exactly when the first frame number of the list about
\* to be delivered is greater than the previous end; it comes right before the list
\* and runs from the time of the previous end to the time of that first frame
\* number.  When the first frame number is the previous end or below it, no gap
\* is sent.
C17_GapOnlyForward ==
    (CueScheduled \/ ev.op \in {"gap", "eos"}) =>
        /\ \A i \in 1..Len(out) :
              out[i].kind = "list" =>
                  LET first == out[i].buffers[1].frame_no
                  IN  IF first > PreviousEnd(i)
                      THEN /\ i > 1
                           /\ out[i - 1] = [kind |-> "gap", start |-> Time(PreviousEnd(i)),
                                            duration |-> Time(first) - Time(PreviousEnd(i))]
                      ELSE i > 1 => out[i - 1].kind # "gap"
        /\ \A i \in 1..Len(out) :
              out[i].kind = "gap" => i < Len(out) /\ out[i + 1].kind = "list"

\* the list sink_chain pushed for the cue itself, when it got that far
CueListPushed == CueScheduled /\ Len(Frames(out)) > 2

CueList == Lists(out)[Len(Lists(out))].buffers

\* C18: the list delivered for a cue holds the cue's frames in the order the encoder
\* produced them, resume_caption_loading first and end_of_caption last; the only
\* other buffers in it are the erase-display frames of a splice, none or two, next
\* to each other.
C18_EmissionOrder ==
    CueListPushed =>
        LET own == SelectSeq(CueList, LAMBDA b : ~IsErase(b))
            spliced == {i \in 1..Len(CueList) : IsErase(CueList[i])}
        IN  /\ [i \in 1..Len(own) |-> own[i].cc] = EncodeText(ev.args.text)
            /\ CueList[1].cc = eia608_control_command("resume_caption_loading")
            /\ CueList[Len(CueList)].cc = eia608_control_command("end_of_caption")
            /\ spliced = {} \/ \E i \in 1..Len(CueList) : spliced = {i, i + 1}

\* a cue with text, delivered with an erase spliced in at a frame of its own
C18_Witness ==
    /\ CueListPushed
    /\ Len(ev.args.text) = 3
    /\ Len(Lists(out)) = 1
    /\ \E i \in 1..Len(CueList) : IsErase(CueList[i])
    /\ \E i \in 1..(Len(CueList) - 1) : CueList[i].frame_no < CueList[i + 1].frame_no

\* the start frame number floor(pts in frames) of the cue of the last sink_chain
CueStartFrame == time_to_frames(ev.args.pts, ev.pre.framerate[1], ev.pre.framerate[2])

\* the frames of the cue's list but its two end_of_caption frames stay away from
\* the start frame: each is stamped on a frame before it, or did not move from
\* the floor when it was stamped
OthersBeforeStart ==
    \A i \in 1..(Len(CueList) - 2) :
        \/ CueList[i].frame_no < CueStartFrame
        \/ ~CueList[i].stepped /\ CueList[i].frame_no = ev.pre.last_frame_no

\* the two end_of_caption frames sit on the start frame F and on F + 1, the second
\* ending at the time of F + 2
EndOfCaptionOnStart ==
    LET n == Len(CueList)
    IN  /\ CueList[n - 1].cc = eia608_control_command("end_of_caption")
        /\ CueList[n].cc = eia608_control_command("end_of_caption")
        /\ CueList[n - 1].pts = Time(CueStartFrame)
        /\ CueList[n].pts = Time(CueStartFrame + 1)
        /\ CueList[n].pts + CueList[n].duration = Time(CueStartFrame + 2)

\* C22: for a cue whose start frame number F = floor(pts in frames) is not below
\* the floor, the first end_of_caption frame is stamped at the time of F, the second
\* at the time of F + 1, and the second ends at the time of F + 2, which is the new
\* last_frame_no; every other frame of the cue is stamped before frame F or packed
\* at the floor.
C22_EndOfCaptionOnStart ==
    (CueListPushed /\ ev.pre.last_frame_no <= CueStartFrame) =>
        /\ EndOfCaptionOnStart
        /\ last_frame_no = CueStartFrame + 2
        /\ OthersBeforeStart

\* C23: a pending erase target is never below the floor: whenever
\* erase_display_frame_no is Some(e), e >= last_frame_no.  So every erase that a
\* gap or an end-of-stream resolves is walked back from a target that is not below
\* the floor, and its frames are not stamped before the time of the floor.
C23_PendingNotBelowFloor ==
    /\ erase_display_frame_no # None => erase_display_frame_no >= last_frame_no
    /\ (ev.op \in {"gap", "eos"} /\ Frames(out) # <<>>) =>
          /\ ev.pre.erase_display_frame_no >= ev.pre.last_frame_no
          /\ \A i \in 1..Len(Frames(out)) :
                /\ Frames(out)[i].frame_no >= ev.pre.last_frame_no
                /\ Frames(out)[i].pts >= Time(ev.pre.last_frame_no)

\* a gap resolved an erase whose target lay above a floor that had moved
C23_Witness ==
    /\ ev.op = "gap"
    /\ Len(Frames(out)) = 2
    /\ ev.pre.last_frame_no > 0
    /\ ev.pre.erase_display_frame_no > ev.pre.last_frame_no

---------------------------------------------------------------------------
(* Properties of the borrows (CellSpec) *)

\* C20: no call out of the element is made while the State is borrowed: at every
\* srcpad.push_list and srcpad.push_event, at the default forwarding of an event
\* (and at every other call that leaves the element) the AtomicRefCell is free, so
\* that a query that comes back in on the same thread during the call borrows the
\* State without a panic.
C20_NoBorrowAcrossCalls ==
    /\ ~panicked
    /\ (todo # <<>> /\ Head(todo).op = "call") => borrow = "free"

\* a query has come back in during the push of a cue's list, and has returned
C20_Witness ==
    /\ Len(todo) = 1
    /\ Head(todo).op = "call"
    /\ Head(todo).arg = "srcpad.push_list"
    /\ Head(todo).val = TRUE
    /\ last_frame_no > 0
    /\ erase_display_frame_no # None
    /\ borrow = "free"

---------------------------------------------------------------------------
(* Properties of the threads (ThreadSpec) *)

\* the handlers of the sink pad and what they call
SinkPath == {"sink_chain", "sink_event", "do_erase_display", "push_list"}

\* the function of the streaming thread whose guard is alive: the one that drops next
MutHolder == SelectSeq(todo, LAMBDA step : step.op = "drop")[1].arg

\* the query is about to borrow the State while a handler of the sink pad holds it
QueryMeetsHandler ==
    /\ qtodo # <<>>
    /\ Head(qtodo).op = "borrow"
    /\ borrow = "mut"
    /\ MutHolder \in SinkPath

\* a handler of the sink pad is about to borrow the State while the query holds it
HandlerMeetsQuery ==
    /\ todo # <<>>
    /\ Head(todo).op = "borrow_mut"
    /\ Head(todo).arg \in SinkPath
    /\ borrow = "shared"

\* C21: the State is never borrowed while the other thread holds it: however a
\* latency query on one thread interleaves with sink_chain, the gap, end-of-stream
\* and caps handlers on the other, the query's borrow never meets a mutable borrow
\* and a handler's borrow_mut never meets the query's borrow, so that no borrow
\* panics and every query that upstream answers gets its result.
C21_NoBorrowRefused ==
    /\ ~QueryMeetsHandler
    /\ ~HandlerMeetsQuery

---------------------------------------------------------------------------
(* Properties of the encoding (EncSpec) *)

Skeleton ==
    <<eia608_control_command("resume_caption_loading"),
      eia608_control_command("resume_caption_loading"),
      eia608_control_command("erase_non_displayed_memory"),
      eia608_control_command("erase_non_displayed_memory"),
      eia608_row_column_preamble(13, 0),
      eia608_row_column_preamble(13, 0)>>

EndOfCaptionPair ==
    <<eia608_control_command("end_of_caption"), eia608_control_command("end_of_caption")>>

\* C8: the codes of every cue start with resume_caption_loading twice,
\* erase_non_displayed_memory twice and the preamble of row 13, column 0 twice, and
\* end with end_of_caption twice; an empty text gives these 8 frames and no other.
C8_Skeleton ==
    encpc = "done" =>
        /\ Len(enc.buffers) >= 8
        /\ SubSeq(enc.buffers, 1, 6) = Skeleton
        /\ SubSeq(enc.buffers, Len(enc.buffers) - 1, Len(enc.buffers)) = EndOfCaptionPair
        /\ data = <<>> => enc.buffers = Skeleton \o EndOfCaptionPair

C8_Witness == encpc = "done" /\ data = <<>> /\ Len(enc.buffers) = 8

\* the code the loop works with for character c
CodeOf(c) == IF eia608_from_utf8_1(c) = 0 THEN SPACE ELSE eia608_from_utf8_1(c)

\* C9: when a West-European character comes while a basic North-American character
\* is held, the loop emits one frame pairing the held character with a space, then
\* one frame with the West-European code alone, and holds nothing afterwards.  The
\* text of one basic North-American and one West-European character gives exactly
\* these two character frames.
C9_ExtendedAfterHeld ==
    /\ (/\ encpc = "loop"
        /\ idx > 1
        /\ data[idx - 1] \notin {"LF", "CR"}
        /\ is_westeu(CodeOf(data[idx - 1]))
        /\ enc.before.prev_char # 0) =>
          /\ enc.buffers = SubSeq(enc.buffers, 1, enc.before.buffers)
                           \o <<eia608_from_basicna(enc.before.prev_char, SPACE),
                                CodeOf(data[idx - 1])>>
          /\ enc.prev_char = 0
    /\ (/\ encpc = "done"
        /\ Len(data) = 2
        /\ data[1] \in Letters
        /\ data[2] = "A'") =>
          enc.buffers = Skeleton \o <<eia608_from_basicna(CodeOf(data[1]), SPACE), CodeOf("A'")>>
                        \o EndOfCaptionPair

C9_Witness ==
    /\ encpc = "loop"
    /\ idx = 3
    /\ data[1] \in Letters
    /\ data[2] = "A'"
    /\ enc.before.prev_char = CodeOf(data[1])

\* text without the characters that come after the 32nd of their line ('\r' does
\* not count, '\n' starts a line)
RECURSIVE WithinColumns(_, _, _)
WithinColumns(text, i, col) ==
    IF i > Len(text) THEN <<>>
    ELSE IF text[i] = "LF" THEN <<"LF">> \o WithinColumns(text, i + 1, 0)
    ELSE IF text[i] = "CR" THEN <<"CR">> \o WithinColumns(text, i + 1, col)
    ELSE IF col < 32 THEN <<text[i]>> \o WithinColumns(text, i + 1, col + 1)
    ELSE WithinColumns(text, i + 1, col + 1)

\* C10: on each line only the first 32 characters count: what comes after the 32nd
\* gives no frame and pairs with nothing, so a text is encoded as the same text
\* without those characters is (33 letters as their first 32); a newline starts the
\* count again.
C10_ColumnLimit ==
    encpc = "done" => enc.buffers = EncodeText(WithinColumns(data, 1, 0))

\* C19: whatever the text, a cue gives at most 74 caption frames (LATENCY_BUFFERS,
\* the number the latency is reported for): its control codes, preambles and
\* character frames, all of which sink_chain delivers, alone exceed it for no text.
C19_WithinLatencyBudget ==
    encpc = "done" => Len(enc.buffers) <= 74

===========================================================================
